---- MODULE Spec2Model ----
(***************************************************************************)
(* Planetary-hour calculators of kronos-planetary-rituals.                 *)
(*                                                                         *)
(* Two calculators are modelled:                                           *)
(*   - the service, src/app/services/planetaryHours.ts                     *)
(*     (calculatePlanetaryHours, findCurrentPlanetaryHour), and            *)
(*   - the second calculator that follows the test script in               *)
(*     src/scripts/test-planetary-hours.ts, lines 68-334 (names ending in  *)
(*     Script here),                                                       *)
(* together with the calendar screen that calls the service               *)
(* (src/components/PlanetaryHourListItem.tsx, CalendarScreen).             *)
(*                                                                         *)
(* Time.  An instant is an integer number of ticks (the code's             *)
(* milliseconds since the epoch); a calendar day has TicksPerDay ticks and *)
(* day 0 is a Sunday.  The machine's local zone is the reference: a        *)
(* timezone argument is its offset, in ticks, east of the machine's zone.  *)
(* Daylight-saving changes are not modelled.                               *)
(*                                                                         *)
(* Luxon keeps the result of plus({minutes: x}) as an unrounded timestamp  *)
(* and toJSDate() truncates it to whole milliseconds.  The hour length is  *)
(* a twelfth of a duration, so unrounded timestamps are kept exactly, in   *)
(* twelfths of a tick (names ending in 12); binary floating-point error    *)
(* on top of that is not modelled.                                         *)
(*                                                                         *)
(* The solar time provider (SunCalc, sunrise-sunset-js) is external: the   *)
(* answers it gives during one operation are drawn nondeterministically    *)
(* and remembered in solar for as long as the operation runs.              *)
(***************************************************************************)
EXTENDS Integers, Sequences, FiniteSets, TLC

VARIABLES
  solar,      \* provider answers seen by the running operation, per calendar day
  call,       \* arguments and outcome of the last calculatePlanetaryHours call
  hours,      \* the list that call returned
  fc,         \* findCurrentPlanetaryHour: position of the (recursive) search
  screen,     \* CalendarScreen component state
  wallClock,  \* the device's clock (new Date())
  backend     \* the hosted database, the auth session, and the calls in progress on them

vars == <<solar, call, hours, fc, screen, wallClock, backend>>

----------------------------------------------------------------------------
\* Bounds of the model

TicksPerDay == 26     \* ticks in a calendar day
MaxDay      == 10     \* calendar days 0..MaxDay exist
MaxCalls    == 4      \* calculations one findCurrentPlanetaryHour search may run in the model
TzShift     == 8      \* offset of the one non-local timezone, in ticks
MaxClockTicks == 4   \* how far the wall clock advances
MaxRepeats  == 2      \* times a caller repeats one calculatePlanetaryHours call
MaxPending  == 2      \* fetches of the calendar screen that may be suspended at once
MaxCallers  == 2      \* getUserProfile calls in progress at once
MaxLogs     == 3      \* addRitualLog calls made one after another
ScenarioStep == 600   \* spacing, in seconds, of the instants the test script may run at

Days      == 0..MaxDay
InputDays == 2..(MaxDay - 2)          \* days an operation is asked about
Instants  == { d * TicksPerDay + t : d \in InputDays, t \in 0..(TicksPerDay - 1) }
Timezones == {0, TzShift}
Callers   == 1..MaxCallers
Locations == {"here", "invalid"}      \* a valid latitude/longitude pair, or one out of range / NaN

----------------------------------------------------------------------------
\* Dates

\* Invalid Date / invalid DateTime (getTime() is NaN)
NaT == -1

\* a date argument that is left out (undefined)
Omitted == -2

DayOf(t) == t \div TicksPerDay

\* Date.prototype.getDay(): day of week in the machine's zone, 0 = Sunday;
\* NaN for an Invalid Date
getDay(t) == IF t = NaT THEN NaT ELSE DayOf(t) % 7

\* nextDate.setDate(nextDate.getDate() + 1), as a calendar day; an Invalid Date
\* stays invalid
dayAfter(d) == IF d = NaT THEN NaT ELSE d + 1

\* DateTime.startOf('day') of instant t seen in zone tz
startOfDay(t, tz) == ((t + tz) \div TicksPerDay) * TicksPerDay - tz

\* DateTime.toJSDate(): new Date(ts) truncates the timestamp to whole ticks
toJSDate(x12) == IF x12 = NaT THEN NaT ELSE x12 \div 12

\* a DateTime made from a Date, as an unrounded timestamp
fromJSDate(t) == IF t = NaT THEN NaT ELSE 12 * t

\* JavaScript's % (sign of the dividend)
JsRem(a, b) == IF a >= 0 THEN a % b ELSE 0 - ((0 - a) % b)

Abs(x) == IF x < 0 THEN 0 - x ELSE x

\* Array.prototype.indexOf, 0-based, -1 when absent
indexOf(seq, x) ==
  IF \E k \in 1..Len(seq) : seq[k] = x
  THEN (CHOOSE k \in 1..Len(seq) : seq[k] = x /\ \A j \in 1..(k - 1) : seq[j] # x) - 1
  ELSE -1

\* seq[k] of a JavaScript array, 0-based
At(seq, k) == IF k \in 0..(Len(seq) - 1) THEN seq[k + 1] ELSE "undefined"

----------------------------------------------------------------------------
\* Planet tables

\* chaldeanOrder of ../constants/planets, imported by the service: the
\* Chaldean sequence as the specification gives it
chaldeanOrder == <<"saturn", "jupiter", "mars", "sun", "venus", "mercury", "moon">>

\* planetaryDayRulers of ../constants/planets, imported by the service: the
\* day-ruler table as the specification gives it, indexed by getDay()
planetaryDayRulers == <<"sun", "moon", "mars", "mercury", "jupiter", "venus", "saturn">>

\* variant: Mars and the Sun change places
PLANETARY_HOUR_SEQUENCE_Swapped ==
  <<"saturn", "jupiter", "sun", "mars", "venus", "mercury", "moon">>

PLANETARY_HOUR_SEQUENCE == <<"saturn", "jupiter", "mars", "sun", "venus", "mercury", "moon">>

\* variant: the table starts with Monday
DAY_RULERS_MondayFirst == <<"moon", "mars", "mercury", "jupiter", "venus", "saturn", "sun">>

DAY_RULERS == <<"sun", "moon", "mars", "mercury", "jupiter", "venus", "saturn">>

REFERENCE_HOUR_SEQUENCE == <<"venus", "mercury", "moon", "saturn", "jupiter", "mars", "sun">>

----------------------------------------------------------------------------
\* Solar time provider

Unasked == [kind |-> "unasked", sr |-> 0, ss |-> 0]

\* What the provider may say about one calendar day: sunrise and sunset as
\* offsets from the day's start.  "polar": no sunrise or sunset (Invalid Date).
\* "error": the provider's call raises an exception.
\* The third answer has the sunset before the sunrise: sunrise-sunset-js puts
\* both events on the UTC date, so west of Greenwich the sunset it returns is
\* the previous evening's.
SolarAnswers ==
  { [kind |-> "times", sr |-> 6, ss |-> 20],
    [kind |-> "times", sr |-> 7, ss |-> 19],
    [kind |-> "times", sr |-> 6, ss |-> 0 - 7],
    [kind |-> "polar", sr |-> 0, ss |-> 0],
    [kind |-> "error", sr |-> 0, ss |-> 0] }

NoAnswers == [d \in Days |-> Unasked]

\* the provider table after it was asked about day d0 (answer a0) and the day
\* after (answer a1); a day it already answered keeps its answer
Answered(old, d0, a0, a1) ==
  [d \in Days |->
     IF old[d] # Unasked THEN old[d]
     ELSE IF d = d0 THEN a0
     ELSE IF d = d0 + 1 THEN a1
     ELSE Unasked]

\* the answers the provider can give about day d: the one it already gave, or any
AnswersFor(old, d) == IF old[d] # Unasked THEN {old[d]} ELSE SolarAnswers

\* the provider's instants for day d; asked about an Invalid Date (d = NaT) it
\* computes with NaN and returns Invalid Date
sunriseOf(s, d) == IF d # NaT /\ s[d].kind = "times" THEN d * TicksPerDay + s[d].sr ELSE NaT
sunsetOf(s, d)  == IF d # NaT /\ s[d].kind = "times" THEN d * TicksPerDay + s[d].ss ELSE NaT

\* one of the provider's calls for day d and the day after raises an exception
\* (both calculators make them inside their try block)
providerThrows(s, d) == d # NaT /\ (s[d].kind = "error" \/ s[d + 1].kind = "error")

----------------------------------------------------------------------------
\* Luxon arithmetic shared by the two calculators

\* base.plus({ minutes: k * hourLength }) with hourLength = to.diff(from)/12,
\* as an unrounded timestamp; an invalid DateTime returns itself
plusMinutes12(base, k, from, to) ==
  IF base = NaT THEN NaT ELSE fromJSDate(base) + k * (to - from)

\* the same with hourLength = Math.abs(to.diff(from))/12
plusAbsMinutes12(base, k, from, to) ==
  IF base = NaT THEN NaT ELSE fromJSDate(base) + k * Abs(to - from)

\* Duration.fromObject({ minutes: NaN }) throws; plus() reaches it only on a
\* valid DateTime
plusThrows(base, from, to) == base # NaT /\ (from = NaT \/ to = NaT)

\* now >= startTime && now < endTime on unrounded timestamps; a comparison
\* with NaN is false
nowWithin(now12, start12, end12) ==
  /\ now12 # NaT /\ start12 # NaT /\ end12 # NaT
  /\ now12 >= start12
  /\ now12 < end12

----------------------------------------------------------------------------
\* calculatePlanetaryHours of src/app/services/planetaryHours.ts

\* variant: the start is the rounded start of the hour before plus one hour
\* length
serviceStartTime12_Accumulated(i, sunrise, sunset, nextSunrise) ==
  IF i < 12
  THEN IF i = 0 \/ sunrise = NaT THEN fromJSDate(sunrise)
       ELSE fromJSDate(toJSDate(plusMinutes12(sunrise, i - 1, sunrise, sunset)))
              + (sunset - sunrise)
  ELSE IF i = 12 \/ sunset = NaT THEN fromJSDate(sunset)
       ELSE fromJSDate(toJSDate(plusMinutes12(sunset, i - 13, sunset, nextSunrise)))
              + (nextSunrise - sunset)

\* startTime of loop index i (0..23), unrounded
serviceStartTime12(i, sunrise, sunset, nextSunrise) ==
  IF i < 12
  THEN plusMinutes12(sunrise, i, sunrise, sunset)
  ELSE plusMinutes12(sunset, i - 12, sunset, nextSunrise)

\* variant: the end is the rounded start plus one hour length
serviceEndTime12_FromRoundedStart(i, sunrise, sunset, nextSunrise) ==
  LET start == fromJSDate(toJSDate(serviceStartTime12(i, sunrise, sunset, nextSunrise)))
  IN IF i < 12
     THEN IF i = 11 THEN fromJSDate(sunset)
          ELSE IF sunrise = NaT THEN NaT ELSE start + (sunset - sunrise)
     ELSE IF i = 23 THEN fromJSDate(nextSunrise)
          ELSE IF sunset = NaT THEN NaT ELSE start + (nextSunrise - sunset)

\* variant: the last night hour is closed with the sunrise of the same day
serviceEndTime12_SameDaySunrise(i, sunrise, sunset, nextSunrise) ==
  IF i < 12
  THEN IF i = 11 THEN fromJSDate(sunset)
       ELSE plusMinutes12(sunrise, i + 1, sunrise, sunset)
  ELSE IF i = 23 THEN fromJSDate(sunrise)
       ELSE plusMinutes12(sunset, (i - 12) + 1, sunset, nextSunrise)

\* variant: an end between the anchors is rounded up to the next whole tick
serviceEndTime12_RoundedUp(i, sunrise, sunset, nextSunrise) ==
  IF i < 12
  THEN IF i = 11 THEN fromJSDate(sunset)
       ELSE IF sunrise = NaT THEN NaT
       ELSE plusMinutes12(sunrise, i + 1, sunrise, sunset) + 11
  ELSE IF i = 23 THEN fromJSDate(nextSunrise)
       ELSE IF sunset = NaT THEN NaT
       ELSE plusMinutes12(sunset, (i - 12) + 1, sunset, nextSunrise) + 11

\* endTime of loop index i (0..23), unrounded
serviceEndTime12(i, sunrise, sunset, nextSunrise) ==
  IF i < 12
  THEN IF i = 11 THEN fromJSDate(sunset)
       ELSE plusMinutes12(sunrise, i + 1, sunrise, sunset)
  ELSE IF i = 23 THEN fromJSDate(nextSunrise)
       ELSE plusMinutes12(sunset, (i - 12) + 1, sunset, nextSunrise)

\* variant: the cycle is indexed by the hour number instead of the loop index
servicePlanet_ByHourNumber(startIndex, i) == At(chaldeanOrder, JsRem(startIndex + i + 1, 7))

\* variant: the cycle is walked backwards
servicePlanet_Descending(startIndex, i) ==
  At(chaldeanOrder, JsRem(startIndex + 7 - JsRem(i, 7), 7))

\* chaldeanOrder[(startIndex + i) % 7]
servicePlanet(startIndex, i) == At(chaldeanOrder, JsRem(startIndex + i, 7))

\* the reference instant of the current-hour test: DateTime.fromJSDate(date)
serviceNow(date) == fromJSDate(date)

\* the object pushed for loop index i
serviceHour(i, sunrise, sunset, nextSunrise, startIndex, date) ==
  LET startTime == serviceStartTime12(i, sunrise, sunset, nextSunrise)
      endTime   == serviceEndTime12(i, sunrise, sunset, nextSunrise)
      isDayHour == i < 12
  IN [ hour          |-> i + 1,
       hourNumber    |-> i + 1,
       planet        |-> servicePlanet(startIndex, i),
       planetId      |-> servicePlanet(startIndex, i),
       period        |-> IF isDayHour THEN "day" ELSE "night",
       isDay         |-> isDayHour,
       startTime     |-> toJSDate(startTime),
       endTime       |-> toJSDate(endTime),
       isCurrentHour |-> nowWithin(serviceNow(date), startTime, endTime) ]

\* the loop throws when it adds NaN minutes (the catch then returns [], as it
\* does for an exception of the provider)
serviceThrows(sunrise, sunset, nextSunrise) ==
  \/ plusThrows(sunrise, sunrise, sunset)
  \/ plusThrows(sunset, sunset, nextSunrise)

\* the calendar day the provider is asked about
serviceSolarDay(date) == IF date = NaT THEN NaT ELSE DayOf(date)

\* date: Date = new Date(): the default applies when the argument is left out
serviceDate(date, clock) == IF date = Omitted THEN clock ELSE date

\* the array planetaryHours after the first k iterations of the loop
serviceBuilt(k, sunrise, sunset, nextSunrise, startIndex, date) ==
  IF k = 0 THEN << >>
  ELSE [ n \in 1..k |->
           serviceHour(n - 1, sunrise, sunset, nextSunrise, startIndex, date) ]

\* the number of iterations that complete before the loop throws (24: none
\* throws): the day hours add dayHourLength minutes to the sunrise, the night
\* hours nightHourLength minutes to the sunset
serviceCompleted(sunrise, sunset, nextSunrise) ==
  IF plusThrows(sunrise, sunrise, sunset) THEN 0
  ELSE IF plusThrows(sunset, sunset, nextSunrise) THEN 12
  ELSE 24

\* variant: the catch hands back what the loop had built
serviceCatch_Partial(planetaryHours) == planetaryHours

\* catch (error) { ...; return []; } with planetaryHours as the loop left it
serviceCatch(planetaryHours) == << >>

\* the list built from the day of week and the provider's three instants
\* (lines 30-31 and 44-114), [] when the loop throws
serviceHours(dayOfWeek, sunrise, sunset, nextSunrise, date) ==
  LET rulingPlanet == At(planetaryDayRulers, dayOfWeek)
      startIndex   == indexOf(chaldeanOrder, rulingPlanet)
  IN IF serviceThrows(sunrise, sunset, nextSunrise)
     THEN serviceCatch(serviceBuilt(serviceCompleted(sunrise, sunset, nextSunrise),
                                    sunrise, sunset, nextSunrise, startIndex, date))
     ELSE serviceBuilt(24, sunrise, sunset, nextSunrise, startIndex, date)

calculatePlanetaryHours(s, latitude, date, timezone) ==
  LET dayOfWeek    == getDay(date)
      sunrise      == sunriseOf(s, serviceSolarDay(date))
      sunset       == sunsetOf(s, serviceSolarDay(date))
      nextSunrise  == sunriseOf(s, dayAfter(serviceSolarDay(date)))
  IN IF providerThrows(s, serviceSolarDay(date))
     THEN serviceCatch(<< >>)
     ELSE serviceHours(dayOfWeek, sunrise, sunset, nextSunrise, date)

----------------------------------------------------------------------------
\* calculatePlanetaryHours of src/scripts/test-planetary-hours.ts

\* a latitude or longitude that fails validation is replaced by 0
scriptValidLocation(latitude) == IF latitude = "invalid" THEN "zero" ELSE latitude

\* variant: the clock is read whatever the date argument is
scriptValidDate_AlwaysClock(date, clock) == clock

\* date instanceof Date && !isNaN(date.getTime()) ? date : new Date()
scriptValidDate(date, clock) == IF date = NaT \/ date = Omitted THEN clock ELSE date

scriptStartTime12(hourNumber, sunriseTime, sunsetTime, nextSunriseTime) ==
  IF hourNumber <= 12
  THEN IF hourNumber = 1 THEN fromJSDate(sunriseTime)
       ELSE plusAbsMinutes12(sunriseTime, hourNumber - 1, sunriseTime, sunsetTime)
  ELSE IF hourNumber = 13 THEN fromJSDate(sunsetTime)
       ELSE plusAbsMinutes12(sunsetTime, hourNumber - 13, sunsetTime, nextSunriseTime)

scriptEndTime12(hourNumber, sunriseTime, sunsetTime, nextSunriseTime) ==
  IF hourNumber <= 12
  THEN IF hourNumber = 12 THEN fromJSDate(sunsetTime)
       ELSE plusAbsMinutes12(sunriseTime, hourNumber, sunriseTime, sunsetTime)
  ELSE IF hourNumber = 24 THEN fromJSDate(nextSunriseTime)
       ELSE plusAbsMinutes12(sunsetTime, (hourNumber - 13) + 1, sunsetTime, nextSunriseTime)

\* variant: the cycle starts at the day ruler
scriptPlanet_FromDayRuler(dayRuler, hourNumber) ==
  At(PLANETARY_HOUR_SEQUENCE,
     JsRem(indexOf(PLANETARY_HOUR_SEQUENCE, dayRuler) + hourNumber - 1, 7))

\* REFERENCE_HOUR_SEQUENCE[(hourNumber - 1) % 7]
scriptPlanet(dayRuler, hourNumber) ==
  At(REFERENCE_HOUR_SEQUENCE, JsRem(hourNumber - 1, 7))

scriptHour(hourNumber, sunriseTime, sunsetTime, nextSunriseTime, dayRuler, now) ==
  LET startTime == scriptStartTime12(hourNumber, sunriseTime, sunsetTime, nextSunriseTime)
      endTime   == scriptEndTime12(hourNumber, sunriseTime, sunsetTime, nextSunriseTime)
      isDayHour == hourNumber <= 12
  IN [ hour          |-> hourNumber,
       hourNumber    |-> hourNumber,
       planet        |-> scriptPlanet(dayRuler, hourNumber),
       planetId      |-> scriptPlanet(dayRuler, hourNumber),
       period        |-> IF isDayHour THEN "day" ELSE "night",
       isDay         |-> isDayHour,
       startTime     |-> toJSDate(startTime),
       endTime       |-> toJSDate(endTime),
       isCurrentHour |-> nowWithin(fromJSDate(now), startTime, endTime) ]

scriptThrows(sunriseTime, sunsetTime, nextSunriseTime) ==
  \/ plusThrows(sunriseTime, sunriseTime, sunsetTime)
  \/ plusThrows(sunsetTime, sunsetTime, nextSunriseTime)

\* the array planetaryHours after the loop has run for hourNumber 1..k
scriptBuilt(k, sunriseTime, sunsetTime, nextSunriseTime, dayRuler, now) ==
  IF k = 0 THEN << >>
  ELSE [ hourNumber \in 1..k |->
           scriptHour(hourNumber, sunriseTime, sunsetTime, nextSunriseTime,
                      dayRuler, now) ]

\* the number of iterations that complete before the loop throws (24: none)
scriptCompleted(sunriseTime, sunsetTime, nextSunriseTime) ==
  IF plusThrows(sunriseTime, sunriseTime, sunsetTime) THEN 0
  ELSE IF plusThrows(sunsetTime, sunsetTime, nextSunriseTime) THEN 12
  ELSE 24

\* catch (error) { ...; return []; } with planetaryHours as the loop left it
scriptCatch(planetaryHours) == << >>

\* the calendar day the provider is asked about: the machine-local day of
\* today = dt.startOf('day') in the target zone
scriptSolarDay(date, timezone) == DayOf(startOfDay(date, timezone))

calculatePlanetaryHoursScript(s, latitude, date, timezone) ==
  LET today           == startOfDay(date, timezone)
      tomorrow        == today + TicksPerDay
      sunriseTime     == sunriseOf(s, DayOf(today))
      sunsetTime      == sunsetOf(s, DayOf(today))
      nextSunriseTime == sunriseOf(s, DayOf(tomorrow))
      dayOfWeek       == getDay(date)
      dayRuler        == At(DAY_RULERS, dayOfWeek)
      now             == date
  IN IF providerThrows(s, DayOf(today))
     THEN scriptCatch(<< >>)
     ELSE IF scriptThrows(sunriseTime, sunsetTime, nextSunriseTime)
     THEN scriptCatch(scriptBuilt(scriptCompleted(sunriseTime, sunsetTime, nextSunriseTime),
                                  sunriseTime, sunsetTime, nextSunriseTime, dayRuler, now))
     ELSE scriptBuilt(24, sunriseTime, sunsetTime, nextSunriseTime, dayRuler, now)

----------------------------------------------------------------------------
\* findCurrentPlanetaryHour (the same text in both files; each copy calls the
\* calculatePlanetaryHours of its own file)

\* a latitude or longitude that fails validation is replaced by New York's
findValidLocation(latitude) == IF latitude = "invalid" THEN "nyc" ELSE latitude

\* now >= hour.startTime.getTime() && now < hour.endTime.getTime(); getTime()
\* of an Invalid Date is NaN and the comparison false
hourContains(hour, now) ==
  /\ hour.startTime # NaT /\ hour.endTime # NaT
  /\ now >= hour.startTime
  /\ now < hour.endTime

NoHour == [ hour |-> 0, hourNumber |-> 0, planet |-> "none", planetId |-> "none",
            period |-> "none", isDay |-> FALSE, startTime |-> NaT, endTime |-> NaT,
            isCurrentHour |-> FALSE ]

\* planetaryHours.find(...): the first hour that contains now, NoHour for undefined
findHour(planetaryHours, now) ==
  IF \E n \in 1..Len(planetaryHours) : hourContains(planetaryHours[n], now)
  THEN planetaryHours[CHOOSE n \in 1..Len(planetaryHours) :
                        /\ hourContains(planetaryHours[n], now)
                        /\ \A m \in 1..(n - 1) : ~hourContains(planetaryHours[m], now)]
  ELSE NoHour

\* variant: an empty list sends the search on to the next day
findDecision_RetryEmpty(planetaryHours, now) ==
  IF Len(planetaryHours) = 0 THEN "next"
  ELSE IF findHour(planetaryHours, now) = NoHour
  THEN LET lastHour  == planetaryHours[Len(planetaryHours)]
           firstHour == planetaryHours[1]
       IN IF lastHour.endTime # NaT /\ now >= lastHour.endTime THEN "next"
          ELSE IF firstHour.startTime # NaT /\ now < firstHour.startTime THEN "prev"
          ELSE "return"
  ELSE "return"

\* what one invocation does after its calculation: "next" / "prev" = it
\* returns the result of a further invocation for the day after / before,
\* "return" = it returns currentHour || null
findDecision(planetaryHours, now) ==
  IF findHour(planetaryHours, now) = NoHour /\ Len(planetaryHours) > 0
  THEN LET lastHour  == planetaryHours[Len(planetaryHours)]
           firstHour == planetaryHours[1]
       IN IF lastHour.endTime # NaT /\ now >= lastHour.endTime THEN "next"
          ELSE IF firstHour.startTime # NaT /\ now < firstHour.startTime THEN "prev"
          ELSE "return"
  ELSE "return"

\* the date the further invocation is given
findNextDate(validDate, decision) ==
  IF decision = "next" THEN validDate + TicksPerDay
  ELSE IF decision = "prev" THEN validDate - TicksPerDay
  ELSE validDate

----------------------------------------------------------------------------
\* State

\* calls: how many times the call with these arguments has run
NoCall == [ fn |-> "none", latitude |-> "here", date |-> 0, timezone |-> 0,
            location |-> "none", solarDay |-> 0, returned |-> FALSE, calls |-> 0 ]

NoSearch == [ pc |-> "idle", fn |-> "none", latitude |-> "here", date |-> 0,
              timezone |-> 0, reference |-> 0, calls |-> 0, result |-> NoHour ]

\* pending: the fetches suspended at their await, oldest first, each with the
\* list its calculatePlanetaryHours call resolved to
NoScreen == [ mounted |-> FALSE, location |-> "none", selectedDate |-> 0,
              isLoading |-> FALSE, error |-> FALSE, planetaryHours |-> << >>,
              pending |-> << >> ]

\* one getUserProfile call: where it stands, the user it acts for, what it
\* returned
IdleCall == [ pc |-> "idle", user |-> "none", result |-> "none" ]

\* one addRitualLog call: what its network check and getUser gave, whether it
\* issued an insert, the row it sent, and what it returned
NoLog == [ pc |-> "idle", net |-> "none", user |-> "none", issued |-> FALSE,
           sent |-> "none", before |-> << >>, id |-> "none", user_id |-> "none",
           threw |-> FALSE, calls |-> 0 ]

\* fn: the file whose getUserProfile the callers run. unique: whether the
\* profiles table refuses a second row with the same id. session: the user the
\* auth session holds. rows: profiles rows of that user. inserts: inserts into
\* profiles issued so far. ritual_logs: the user_id of each row of that table.
NoBackend == [ fn |-> "none", unique |-> TRUE, session |-> "none", rows |-> 0,
               inserts |-> 0, proc |-> [ p \in Callers |-> IdleCall ],
               ritual_logs |-> << >>, log |-> NoLog ]

\* the wall clock starts shortly before a midnight
ClockStart == 4 * TicksPerDay + (TicksPerDay - 2)

\* a caller is about to run one of the two calculatePlanetaryHours
Init ==
  /\ solar = NoAnswers
  /\ \E fn \in {"service", "script"}, latitude \in Locations,
        date \in Instants, timezone \in Timezones :
       call = [ NoCall EXCEPT !.fn = fn, !.latitude = latitude,
                              !.date = date, !.timezone = timezone ]
  /\ hours = << >>
  /\ fc = NoSearch
  /\ screen = NoScreen
  /\ wallClock = ClockStart
  /\ backend = NoBackend

\* the service's calculatePlanetaryHours runs; the provider answers for the
\* date and the next date
CallService ==
  /\ call.fn = "service"
  /\ ~call.returned
  /\ \E a0 \in SolarAnswers, a1 \in SolarAnswers :
       solar' = Answered(NoAnswers, serviceSolarDay(call.date), a0, a1)
  /\ hours' = calculatePlanetaryHours(solar', call.latitude, call.date, call.timezone)
  /\ call' = [ call EXCEPT !.location = call.latitude,
                           !.solarDay = serviceSolarDay(call.date),
                           !.returned = TRUE, !.calls = 1 ]
  /\ UNCHANGED <<fc, screen, wallClock, backend>>

\* the script's calculatePlanetaryHours runs
CallScript ==
  /\ call.fn = "script"
  /\ ~call.returned
  /\ \E a0 \in SolarAnswers, a1 \in SolarAnswers :
       solar' = Answered(NoAnswers, scriptSolarDay(call.date, call.timezone), a0, a1)
  /\ hours' = calculatePlanetaryHoursScript(solar', call.latitude, call.date, call.timezone)
  /\ call' = [ call EXCEPT !.location = scriptValidLocation(call.latitude),
                           !.solarDay = scriptSolarDay(call.date, call.timezone),
                           !.returned = TRUE, !.calls = 1 ]
  /\ UNCHANGED <<fc, screen, wallClock, backend>>

Next == CallService \/ CallScript

Spec == Init /\ [][Next]_vars

----------------------------------------------------------------------------
\* findCurrentPlanetaryHour as a process: one step per invocation

\* a caller is about to run findCurrentPlanetaryHour of one of the two files
InitFind ==
  /\ solar = NoAnswers
  /\ call = NoCall
  /\ hours = << >>
  /\ \E fn \in {"service", "script"}, latitude \in Locations,
        date \in Instants, timezone \in Timezones :
       fc = [ NoSearch EXCEPT !.pc = "call", !.fn = fn, !.latitude = latitude,
                              !.date = date, !.timezone = timezone,
                              !.reference = date ]
  /\ screen = NoScreen
  /\ wallClock = ClockStart
  /\ backend = NoBackend

\* one invocation: validate, calculate the day of fc.date, search, and either
\* return or hand over to an invocation for the adjacent date
FindInvocation(solarDay) ==
  LET validLatitude == findValidLocation(fc.latitude) IN
  /\ fc.pc = "call"
  /\ fc.calls < MaxCalls
  /\ DayOf(fc.date) \in InputDays
  /\ \E a0 \in AnswersFor(solar, solarDay), a1 \in AnswersFor(solar, solarDay + 1) :
       solar' = Answered(solar, solarDay, a0, a1)
  /\ hours' = IF fc.fn = "script"
              THEN calculatePlanetaryHoursScript(solar', validLatitude, fc.date, fc.timezone)
              ELSE calculatePlanetaryHours(solar', validLatitude, fc.date, fc.timezone)
  /\ call' = [ fn |-> fc.fn, latitude |-> validLatitude, date |-> fc.date,
               timezone |-> fc.timezone,
               location |-> IF fc.fn = "script"
                            THEN scriptValidLocation(validLatitude)
                            ELSE validLatitude,
               solarDay |-> solarDay, returned |-> TRUE, calls |-> 1 ]
  /\ LET now      == fc.date
         decision == findDecision(hours', now)
     IN fc' = IF decision = "return"
              THEN [ fc EXCEPT !.pc = "done", !.latitude = validLatitude,
                               !.calls = @ + 1,
                               !.result = findHour(hours', now) ]
              ELSE [ fc EXCEPT !.latitude = validLatitude, !.calls = @ + 1,
                               !.date = findNextDate(fc.date, decision) ]
  /\ UNCHANGED <<screen, wallClock, backend>>

FindService ==
  /\ fc.fn = "service"
  /\ FindInvocation(serviceSolarDay(fc.date))

FindScript ==
  /\ fc.fn = "script"
  /\ FindInvocation(scriptSolarDay(fc.date, fc.timezone))

NextFind == FindService \/ FindScript

SpecFind == InitFind /\ [][NextFind]_vars

----------------------------------------------------------------------------
\* CalendarScreen (src/components/PlanetaryHourListItem.tsx)

\* Intl.DateTimeFormat().resolvedOptions().timeZone: the machine's zone
systemTimezone == 0

\* new Date(2025, 3, 11): local midnight of a Friday
hardcodedToday == 5 * TicksPerDay

\* new Date('2025-04-21T17:10:18-06:00'), ten days after hardcodedToday
hardcodedNow == 15 * TicksPerDay + (17 * TicksPerDay) \div 24

\* dateAtNoon.setHours(12, 0, 0, 0)
dateAtNoon(selectedDate) == DayOf(selectedDate) * TicksPerDay + TicksPerDay \div 2

\* location?.latitude || 0
screenLatitude(location) == IF location = "none" THEN "zero" ELSE location

\* the reference instant the service receives from the screen: it declares
\* six parameters, the seventh argument (hardcodedNow) is dropped
screenReference(selectedDate) == dateAtNoon(selectedDate)

\* the effect on [selectedDate, location]: fetchPlanetaryHours runs to its end
\* (calculatePlanetaryHours never suspends on I/O, so no event interleaves).
\* Its catch (setError) is entered only when the awaited promise rejects; the
\* service's own catch resolves it with [] instead, so error stays null.
fetchPlanetaryHours(selectedDate) ==
  /\ DayOf(selectedDate) \in InputDays
  /\ \E a0 \in SolarAnswers, a1 \in SolarAnswers :
       solar' = Answered(NoAnswers, serviceSolarDay(dateAtNoon(selectedDate)), a0, a1)
  /\ hours' = calculatePlanetaryHours(solar', screenLatitude(screen.location),
                                      screenReference(selectedDate), systemTimezone)
  /\ call' = [ fn |-> "service", latitude |-> screenLatitude(screen.location),
               date |-> dateAtNoon(selectedDate), timezone |-> systemTimezone,
               location |-> screenLatitude(screen.location),
               solarDay |-> serviceSolarDay(dateAtNoon(selectedDate)),
               returned |-> TRUE, calls |-> 1 ]
  /\ screen' = [ screen EXCEPT !.mounted = TRUE, !.selectedDate = selectedDate,
                               !.isLoading = FALSE, !.error = FALSE,
                               !.planetaryHours = hours' ]
  /\ UNCHANGED <<fc, backend>>

\* hour.isDayHour as the screen and the test script read it: the property of
\* that name, undefined (falsy) on an object that has none
isDayHour(hour) == IF "isDayHour" \in DOMAIN hour THEN hour.isDayHour ELSE FALSE

notDayHour(hour) == ~isDayHour(hour)

\* the rows under "Day Hours": planetaryHours.filter(hour => hour.isDayHour)
dayHoursSection(planetaryHours) == SelectSeq(planetaryHours, isDayHour)

\* the rows under "Night Hours": planetaryHours.filter(hour => !hour.isDayHour)
nightHoursSection(planetaryHours) == SelectSeq(planetaryHours, notDayHour)

InitScreen ==
  /\ solar = NoAnswers
  /\ call = NoCall
  /\ hours = << >>
  /\ fc = NoSearch
  /\ \E location \in {"none", "here"} : screen = [ NoScreen EXCEPT !.location = location ]
  /\ wallClock = ClockStart
  /\ backend = NoBackend

\* first render: selectedDate is new Date()
Mount ==
  /\ ~screen.mounted
  /\ fetchPlanetaryHours(wallClock)
  /\ UNCHANGED wallClock

goToPreviousDay ==
  /\ screen.mounted
  /\ fetchPlanetaryHours(screen.selectedDate - TicksPerDay)
  /\ UNCHANGED wallClock

goToNextDay ==
  /\ screen.mounted
  /\ fetchPlanetaryHours(screen.selectedDate + TicksPerDay)
  /\ UNCHANGED wallClock

goToToday ==
  /\ screen.mounted
  /\ fetchPlanetaryHours(hardcodedToday)
  /\ UNCHANGED wallClock

\* time passes
Tick ==
  /\ wallClock < ClockStart + MaxClockTicks
  /\ wallClock' = wallClock + 1
  /\ UNCHANGED <<solar, call, hours, fc, screen, backend>>

NextScreen == Mount \/ goToPreviousDay \/ goToNextDay \/ goToToday \/ Tick

SpecScreen == InitScreen /\ [][NextScreen]_vars

----------------------------------------------------------------------------
\* CalendarScreen, the fetch in its two halves: up to the await, and after it

\* the days the calendar is moved over
AsyncDays == {4, 5}

\* the provider's answers these fetches meet: a day with both events, or an
\* exception
AsyncAnswers == { a \in SolarAnswers : a.kind = "error" \/ (a.kind = "times" /\ a.ss > a.sr) }

\* which suspended fetch resumes next. calculatePlanetaryHours has no await
\* of its own, so its promise is resolved when the call returns, and the
\* continuations of resolved promises run in the order they were queued.
nextToComplete_Newest(pending) == Len(pending)

nextToComplete(pending) == 1

\* the list without its k-th element
withoutAt(seq, k) == [ n \in 1..(Len(seq) - 1) |-> IF n < k THEN seq[n] ELSE seq[n + 1] ]

\* the effect on [selectedDate, location] up to its await: setIsLoading(true),
\* setError(null), and the call of calculatePlanetaryHours, which runs to its
\* return statement. SunCalc is a function of its arguments: a day it was
\* asked about at this location keeps its answer.
fetchStarts(selectedDate, location, known) ==
  /\ DayOf(selectedDate) \in AsyncDays
  /\ Len(screen.pending) < MaxPending
  /\ \E a0 \in AnswersFor(known, serviceSolarDay(dateAtNoon(selectedDate))) \cap AsyncAnswers,
        a1 \in AnswersFor(known, serviceSolarDay(dateAtNoon(selectedDate)) + 1) \cap AsyncAnswers :
       solar' = Answered(known, serviceSolarDay(dateAtNoon(selectedDate)), a0, a1)
  /\ hours' = calculatePlanetaryHours(solar', screenLatitude(location),
                                      screenReference(selectedDate), systemTimezone)
  /\ call' = [ fn |-> "service", latitude |-> screenLatitude(location),
               date |-> dateAtNoon(selectedDate), timezone |-> systemTimezone,
               location |-> screenLatitude(location),
               solarDay |-> serviceSolarDay(dateAtNoon(selectedDate)),
               returned |-> TRUE, calls |-> 1 ]
  /\ screen' = [ screen EXCEPT !.mounted = TRUE, !.selectedDate = selectedDate,
                               !.location = location,
                               !.isLoading = TRUE, !.error = FALSE,
                               !.pending = Append(screen.pending, hours') ]
  /\ UNCHANGED <<fc, wallClock, backend>>

\* a suspended fetch resumes after its await: setPlanetaryHours(hours), and
\* in the finally block setIsLoading(false)
fetchCompletes ==
  /\ Len(screen.pending) > 0
  /\ screen' = [ screen EXCEPT
                   !.planetaryHours = screen.pending[nextToComplete(screen.pending)],
                   !.isLoading = FALSE,
                   !.pending = withoutAt(screen.pending, nextToComplete(screen.pending)) ]
  /\ UNCHANGED <<solar, call, hours, fc, wallClock, backend>>

AsyncMount ==
  /\ ~screen.mounted
  /\ fetchStarts(wallClock, screen.location, solar)

AsyncPreviousDay ==
  /\ screen.mounted
  /\ fetchStarts(screen.selectedDate - TicksPerDay, screen.location, solar)

AsyncNextDay ==
  /\ screen.mounted
  /\ fetchStarts(screen.selectedDate + TicksPerDay, screen.location, solar)

AsyncToday ==
  /\ screen.mounted
  /\ fetchStarts(hardcodedToday, screen.location, solar)

\* the location store hands the screen another location
locationChanges ==
  /\ screen.mounted
  /\ \E location \in {"none", "here"} :
       /\ location # screen.location
       /\ fetchStarts(screen.selectedDate, location, NoAnswers)

NextAsync ==
  \/ AsyncMount \/ AsyncPreviousDay \/ AsyncNextDay \/ AsyncToday
  \/ locationChanges \/ fetchCompletes

SpecAsync == InitScreen /\ [][NextAsync]_vars

----------------------------------------------------------------------------
\* A caller that repeats one calculatePlanetaryHours call while time passes

\* what the caller passes as date: an instant of the clock's day, an Invalid
\* Date, or nothing
DateArguments == { t \in Instants : DayOf(t) = DayOf(ClockStart) } \cup {NaT, Omitted}

InitRepeat ==
  /\ solar = NoAnswers
  /\ \E fn \in {"service", "script"}, latitude \in Locations,
        date \in DateArguments, timezone \in Timezones :
       call = [ NoCall EXCEPT !.fn = fn, !.latitude = latitude,
                              !.date = date, !.timezone = timezone ]
  /\ hours = << >>
  /\ fc = NoSearch
  /\ screen = NoScreen
  /\ wallClock = ClockStart
  /\ backend = NoBackend

\* the provider is asked about solarDay and the day after; it repeats the
\* answers it gave before, and answers Invalid Date for an Invalid Date
AskProvider(solarDay) ==
  IF solarDay = NaT
  THEN solar' = solar
  ELSE \E a0 \in AnswersFor(solar, solarDay), a1 \in AnswersFor(solar, solarDay + 1) :
         solar' = Answered(solar, solarDay, a0, a1)

\* the service's calculatePlanetaryHours runs with the caller's arguments
RepeatService ==
  LET date == serviceDate(call.date, wallClock) IN
  /\ call.fn = "service"
  /\ call.calls < MaxRepeats
  /\ AskProvider(serviceSolarDay(date))
  /\ hours' = calculatePlanetaryHours(solar', call.latitude, date, call.timezone)
  /\ call' = [ call EXCEPT !.location = call.latitude,
                           !.solarDay = serviceSolarDay(date),
                           !.returned = TRUE, !.calls = @ + 1 ]
  /\ UNCHANGED <<fc, screen, wallClock, backend>>

\* the script's calculatePlanetaryHours runs with the caller's arguments
RepeatScript ==
  LET validDate == scriptValidDate(call.date, wallClock) IN
  /\ call.fn = "script"
  /\ call.calls < MaxRepeats
  /\ AskProvider(scriptSolarDay(validDate, call.timezone))
  /\ hours' = calculatePlanetaryHoursScript(solar', call.latitude, validDate, call.timezone)
  /\ call' = [ call EXCEPT !.location = scriptValidLocation(call.latitude),
                           !.solarDay = scriptSolarDay(validDate, call.timezone),
                           !.returned = TRUE, !.calls = @ + 1 ]
  /\ UNCHANGED <<fc, screen, wallClock, backend>>

NextRepeat == RepeatService \/ RepeatScript \/ Tick

SpecRepeat == InitRepeat /\ [][NextRepeat]_vars

----------------------------------------------------------------------------
\* The test script's run (testPlanetaryHours, lines 4-26) on the day the
\* specification's example describes: a Sunday in Monticello, UT, with the
\* sunrise at 06:24 and the sunset at 20:05.  In this part an instant is a
\* number of seconds since that Sunday's local midnight.

SecondsPerDay   == 24 * 60 * 60
ScenarioSunday  == 0                          \* TODAY.getDay()
ScenarioSunrise == 6 * 3600 + 24 * 60         \* 06:24:00
ScenarioSunset  == 20 * 3600 + 5 * 60         \* 20:05:00

\* Monday's sunrise, a minute earlier than Sunday's or at the same time
ScenarioNextSunrises == { SecondsPerDay + ScenarioSunrise - 60,
                          SecondsPerDay + ScenarioSunrise }

\* TODAY = new Date(): some instant of the Sunday
ScenarioTodays == { t \in 0..(SecondsPerDay - 1) : t % ScenarioStep = 0 }

InitScenario ==
  /\ solar = NoAnswers
  /\ \E today \in ScenarioTodays :
       call = [ NoCall EXCEPT !.fn = "service", !.date = today ]
  /\ hours = << >>
  /\ fc = NoSearch
  /\ screen = NoScreen
  /\ wallClock = ClockStart
  /\ backend = NoBackend

\* the script calls the service's calculatePlanetaryHours for TODAY; the
\* provider returns the example's sunrise and sunset
testPlanetaryHours ==
  /\ call.fn = "service"
  /\ ~call.returned
  /\ \E nextSunrise \in ScenarioNextSunrises :
       hours' = serviceHours(ScenarioSunday, ScenarioSunrise, ScenarioSunset,
                             nextSunrise, call.date)
  /\ call' = [ call EXCEPT !.location = call.latitude, !.returned = TRUE, !.calls = 1 ]
  /\ UNCHANGED <<solar, fc, screen, wallClock, backend>>

NextScenario == testPlanetaryHours

SpecScenario == InitScenario /\ [][NextScenario]_vars

----------------------------------------------------------------------------
\* The hosted backend (src/services/supabase.ts, src/unnamed/part_000)

\* what the request of the network check can come to: a response with
\* response.ok, a response without, or a rejected fetch (no network, or the
\* abort after three seconds)
Networks == {"ok", "notOk", "throws"}

\* the user the auth session holds, if any
Sessions == {"none", "u1", "u2"}

isOfflineMode_Never(net) == FALSE

\* isOfflineMode: !response.ok, and true from its catch
isOfflineMode(net) == net # "ok"

\* error.code === 'PGRST116' of select(...).single(): the rows were not
\* exactly one
notSingle(rows) == rows # 1

\* the call of caller p moves on
CallerAt(p, pc, user, result) ==
  [ backend EXCEPT !.proc[p] = [ pc |-> pc, user |-> user, result |-> result ] ]

\* src/services/supabase.ts getUserProfile(userId), up to the answer of its
\* select: with a row it returns the first one, without it goes on to insert
serviceGetUserProfileSelect(p, userId) ==
  /\ backend.fn = "service"
  /\ backend.proc[p].pc = "idle"
  /\ backend' = IF backend.rows > 0
                  THEN CallerAt(p, "done", userId, userId)
                  ELSE CallerAt(p, "insert", userId, "none")

\* part_000 getUserProfile(), up to the answer of isOfflineMode
getUserProfileOffline(p, net) ==
  /\ backend.fn = "part_000"
  /\ backend.proc[p].pc = "idle"
  /\ backend' = IF isOfflineMode(net)
                  THEN CallerAt(p, "done", "none", "offline-user")
                  ELSE CallerAt(p, "getUser", "none", "none")

\* ... up to the answer of supabase.auth.getUser()
getUserProfileGetUser(p) ==
  /\ backend.proc[p].pc = "getUser"
  /\ backend' = IF backend.session = "none"
                  THEN CallerAt(p, "done", "none", "anonymous-user")
                  ELSE CallerAt(p, "select", backend.session, "none")

\* ... up to the answer of select('*').eq('id', ...).single()
getUserProfileSelect(p) ==
  /\ backend.proc[p].pc = "select"
  /\ backend' = IF notSingle(backend.rows)
                  THEN CallerAt(p, "insert", backend.proc[p].user, "none")
                  ELSE CallerAt(p, "done", backend.proc[p].user, backend.proc[p].user)

\* both files: insert(...).select().single() and its answer. A table that
\* refuses the duplicate answers with an error: the service returns it in
\* { data: null, error }, part_000 throws it.
getUserProfileInsert(p) ==
  /\ backend.proc[p].pc = "insert"
  /\ backend.inserts < MaxCallers + 1
  /\ backend' =
       IF backend.unique /\ backend.rows > 0
         THEN [ CallerAt(p, "done", backend.proc[p].user, "error")
                  EXCEPT !.inserts = backend.inserts + 1 ]
         ELSE [ CallerAt(p, "done", backend.proc[p].user, backend.proc[p].user)
                  EXCEPT !.inserts = backend.inserts + 1,
                         !.rows = backend.rows + 1 ]

InitProfile ==
  /\ solar = NoAnswers
  /\ call = NoCall
  /\ hours = << >>
  /\ fc = NoSearch
  /\ screen = NoScreen
  /\ wallClock = ClockStart
  /\ \E fn \in {"service", "part_000"}, unique \in BOOLEAN,
        session \in {"none", "u1"}, rows \in {0, 1} :
       backend = [ NoBackend EXCEPT !.fn = fn, !.unique = unique,
                                    !.session = IF fn = "service" THEN "u1" ELSE session,
                                    !.rows = rows ]

ProfileFrame == UNCHANGED <<solar, call, hours, fc, screen, wallClock>>

ServiceSelect == (\E p \in Callers : serviceGetUserProfileSelect(p, "u1")) /\ ProfileFrame

ProfileOffline ==
  (\E p \in Callers, net \in Networks : getUserProfileOffline(p, net)) /\ ProfileFrame

ProfileGetUser == (\E p \in Callers : getUserProfileGetUser(p)) /\ ProfileFrame

ProfileSelect == (\E p \in Callers : getUserProfileSelect(p)) /\ ProfileFrame

ProfileInsert == (\E p \in Callers : getUserProfileInsert(p)) /\ ProfileFrame

\* the caller takes the result; its slot is free for another call
ProfileReturn ==
  /\ \E p \in Callers :
       /\ backend.proc[p].pc = "done"
       /\ backend' = [ backend EXCEPT !.proc[p] = IdleCall ]
  /\ ProfileFrame

NextProfile ==
  \/ ServiceSelect \/ ProfileOffline \/ ProfileGetUser
  \/ ProfileSelect \/ ProfileInsert \/ ProfileReturn

SpecProfile == InitProfile /\ [][NextProfile]_vars

\* part_000 addRitualLog, up to the answer of isOfflineMode: offline it
\* returns the argument with id `local-${Date.now()}` and user_id
\* 'offline-user'
addRitualLogOffline(net) ==
  /\ backend.log.pc \in {"idle", "done"}
  /\ backend.log.calls < MaxLogs
  /\ backend' =
       [ backend EXCEPT !.log =
           [ NoLog EXCEPT !.calls = backend.log.calls + 1,
                          !.net = net,
                          !.before = backend.ritual_logs,
                          !.pc = IF isOfflineMode(net) THEN "done" ELSE "getUser",
                          !.id = IF isOfflineMode(net) THEN "local-" ELSE "none",
                          !.user_id = IF isOfflineMode(net) THEN "offline-user" ELSE "none" ] ]

\* ... up to the answer of supabase.auth.getUser(): without a user id it
\* returns the argument with id `anon-${Date.now()}` and user_id
\* 'anonymous-user'
addRitualLogGetUser ==
  /\ backend.log.pc = "getUser"
  /\ backend' =
       [ backend EXCEPT !.log =
           IF backend.session = "none"
             THEN [ backend.log EXCEPT !.pc = "done", !.id = "anon-",
                                       !.user_id = "anonymous-user" ]
             ELSE [ backend.log EXCEPT !.pc = "insert", !.user = backend.session ] ]

\* ... insert({...ritualLog, user_id: user.user.id, ...}).select().single()
\* and its answer: the created row is returned, an error is thrown
addRitualLogInsert(accepted) ==
  /\ backend.log.pc = "insert"
  /\ backend' =
       IF accepted
         THEN [ backend EXCEPT
                  !.ritual_logs = Append(backend.ritual_logs, backend.log.user),
                  !.log = [ backend.log EXCEPT !.pc = "done", !.issued = TRUE,
                                               !.sent = backend.log.user,
                                               !.id = "uuid",
                                               !.user_id = backend.log.user ] ]
         ELSE [ backend EXCEPT
                  !.log = [ backend.log EXCEPT !.pc = "done", !.issued = TRUE,
                                               !.sent = backend.log.user,
                                               !.threw = TRUE ] ]

InitRitualLog ==
  /\ solar = NoAnswers
  /\ call = NoCall
  /\ hours = << >>
  /\ fc = NoSearch
  /\ screen = NoScreen
  /\ wallClock = ClockStart
  /\ \E session \in Sessions : backend = [ NoBackend EXCEPT !.session = session ]

RitualLogOffline == (\E net \in Networks : addRitualLogOffline(net)) /\ ProfileFrame

RitualLogGetUser == addRitualLogGetUser /\ ProfileFrame

RitualLogInsert == (\E accepted \in BOOLEAN : addRitualLogInsert(accepted)) /\ ProfileFrame

\* a sign-in or a sign-out
sessionChanges ==
  /\ \E session \in Sessions :
       /\ session # backend.session
       /\ backend' = [ backend EXCEPT !.session = session ]
  /\ ProfileFrame

NextRitualLog == RitualLogOffline \/ RitualLogGetUser \/ RitualLogInsert \/ sessionChanges

SpecRitualLog == InitRitualLog /\ [][NextRitualLog]_vars

----------------------------------------------------------------------------
\* Properties

\* the three instants the provider returned to the last calculation
solarSunrise     == sunriseOf(solar, call.solarDay)
solarSunset      == sunsetOf(solar, call.solarDay)
solarNextSunrise == sunriseOf(solar, call.solarDay + 1)

\* the provider produced a sunrise, a sunset and a next sunrise
providerAnswered ==
  solarSunrise # NaT /\ solarSunset # NaT /\ solarNextSunrise # NaT

\* the provider's instants are in their natural order
providerOrdered ==
  providerAnswered /\ solarSunrise < solarSunset /\ solarSunset < solarNextSunrise

\* every answer the provider gave has its sunrise before its sunset
solarRegular ==
  \A d \in Days : solar[d] = Unasked \/ (solar[d].kind = "times" /\ solar[d].sr < solar[d].ss)

currentHours(list) == { n \in 1..Len(list) : list[n].isCurrentHour }

C2_Anchors ==
  (call.returned /\ providerAnswered) =>
     /\ hours[1].startTime = solarSunrise
     /\ hours[12].endTime = solarSunset
     /\ hours[13].startTime = solarSunset
     /\ hours[24].endTime = solarNextSunrise

\* a returned day whose sunset the provider put before its sunrise
C2_Witness ==
  /\ call.returned /\ providerAnswered
  /\ Len(hours) = 24
  /\ solarSunset < solarSunrise
  /\ hours[12].endTime = solarSunset

\* C3: in the service, hour h carries the planet at position
\* (startIndex + h - 1) mod 7 of the Chaldean sequence, startIndex being the
\* position of the ruler of the date's day of week; hours 1, 8, 15 and 22
\* carry that ruler.
C3_ModularLaw ==
  (call.returned /\ call.fn = "service" /\ Len(hours) > 0) =>
     LET ruler      == planetaryDayRulers[getDay(call.date) + 1]
         startIndex == CHOOSE k \in 0..6 : chaldeanOrder[k + 1] = ruler
     IN /\ \A h \in 1..24 :
             hours[h].planet = chaldeanOrder[((startIndex + h - 1) % 7) + 1]
        /\ \A h \in {1, 8, 15, 22} : hours[h].planet = ruler

\* the service returned a Saturday's hours (the sequence wraps at once)
C3_Witness ==
  /\ call.returned /\ call.fn = "service" /\ Len(hours) = 24
  /\ getDay(call.date) = 6
  /\ hours[1].planet = "saturn"
  /\ hours[24].planet = "mars"

\* C4: in the script's calculator the first hour is ruled by the day ruler
\* DAY_RULERS[dayOfWeek(date)].
C4_FirstHourDayRuler ==
  (call.returned /\ call.fn = "script" /\ Len(hours) > 0) =>
     hours[1].planet = DAY_RULERS[getDay(call.date) + 1]

\* C5: containment is half-open on the returned intervals: the hours flagged
\* current are exactly those of the returned list with
\* startTime <= reference < endTime; a reference equal to the endTime of hour
\* n < 24 flags hour n + 1 and not hour n, one equal to the endTime of hour 24
\* flags none.  (Stated for a provider whose instants are in order.)
C5_HalfOpen ==
  (call.returned /\ providerOrdered) =>
     /\ \A n \in 1..24 : hours[n].isCurrentHour <=> hourContains(hours[n], call.date)
     /\ \A n \in 1..23 :
          call.date = hours[n].endTime =>
             ~hours[n].isCurrentHour /\ hours[n + 1].isCurrentHour
     /\ call.date = hours[24].endTime => currentHours(hours) = {}

\* C6: at most one hour of a returned list is flagged current, whatever
\* instants the provider returned.
C6_AtMostOneCurrent ==
  call.returned => Cardinality(currentHours(hours)) <= 1

\* C7: when the calendar date of the actual now differs from the date the
\* screen queries, no hour of the list it shows is flagged current.  (Stated
\* for a provider whose instants are in order.)
C7_DateGating ==
  (screen.mounted /\ solarRegular /\ DayOf(wallClock) # DayOf(call.date)) =>
     currentHours(screen.planetaryHours) = {}

\* C8: the hours the screen shows are flagged from the reference instant it
\* passes as the last argument: hour h is current iff that instant lies in
\* [startTime(h), endTime(h)).  (Stated for a provider whose instants are in
\* order.)
C8_CallerReference ==
  (screen.mounted /\ solarRegular) =>
     \A n \in 1..Len(screen.planetaryHours) :
        screen.planetaryHours[n].isCurrentHour
          <=> hourContains(screen.planetaryHours[n], hardcodedNow)

\* C9: a search runs the day calculation for the reference date and for at
\* most one day after and one day before it, and no further.  (Stated for a
\* provider whose instants are in order.)
C9_BoundedSearch ==
  (fc.pc # "idle" /\ call.returned /\ solarRegular) =>
     /\ fc.calls <= 3
     /\ DayOf(call.date) \in (DayOf(fc.reference) - 1)..(DayOf(fc.reference) + 1)

\* C10: an hour returned by findCurrentPlanetaryHour contains the reference
\* instant the caller passed.  (Stated for a provider whose instants are in
\* order.)
C10_ResultContainsReference ==
  (fc.pc = "done" /\ fc.result # NoHour /\ solarRegular) => hourContains(fc.result, fc.reference)

\* one of the provider's calls of the last calculation raised an exception
providerThrew == providerThrows(solar, call.solarDay)

\* the provider answered without an exception, but with no valid instant for
\* the sunrise and sunset of the queried day or for the next sunrise
noSolarEvent == ~providerThrew /\ ~providerAnswered

\* C11: when the provider yields no valid sunrise or sunset (polar day or
\* night), calculatePlanetaryHours fails: it returns no list of hours built
\* from invalid times.
C11_NoSolarEventFails ==
  (call.returned /\ noSolarEvent) =>
     \A n \in 1..Len(hours) : hours[n].startTime # NaT /\ hours[n].endTime # NaT

\* C12: an exception of the provider reaches the caller as a failure: whenever
\* the provider failed during the screen's calculation, the screen is in its
\* error state and shows no normally-returned list.
C12_ProviderErrorPropagated ==
  (screen.mounted /\ providerThrew) => screen.error

\* C13: calculatePlanetaryHours computes with the location (0, 0) when the
\* coordinates it is given are out of range or not finite, and with the
\* coordinates themselves when they are valid.
C13_InvalidCoordinatesDefault ==
  call.returned =>
     call.location = IF call.latitude = "invalid" THEN "zero" ELSE call.latitude

\* C14: for the same invalid coordinates, findCurrentPlanetaryHour computes
\* with the location that calculatePlanetaryHours substitutes for them (stated
\* for the file that has both substitutions, the script's).
C14_OneFallback ==
  [][ (fc.pc = "call" /\ fc.fn = "script" /\ fc.latitude = "invalid") =>
         call'.location = scriptValidLocation(fc.latitude) ]_vars

C16_NoWallClock ==
  [][ (call.returned /\ call'.returned /\ solar' = solar) => hours' = hours ]_vars

\* the day of week of instant t on the calendar of zone tz, 0 = Sunday
weekdayIn(t, tz) == ((t + tz) \div TicksPerDay) % 7

\* C17: the ruling planet (the planet of hour 1 in the service) is that of
\* the day of week of the queried date in the timezone passed to the call,
\* not in the machine's zone.
C17_WeekdayInTargetZone ==
  (call.returned /\ call.fn = "service" /\ Len(hours) > 0) =>
     hours[1].planet = planetaryDayRulers[weekdayIn(call.date, call.timezone) + 1]

\* C18: every returned hour has startTime < endTime, for every triple of
\* valid instants the provider returns (stated for the script's calculator
\* and its provider).
C18_StartBeforeEnd ==
  (call.returned /\ call.fn = "script" /\ providerAnswered) =>
     \A n \in 1..Len(hours) : hours[n].startTime < hours[n].endTime

\* C19: the hours 1..12 are classified as day and the hours 13..24 as night,
\* so that of the 24 hours the screen shows, 12 are listed under "Day Hours"
\* and 12 under "Night Hours".
C19_DayNightSections ==
  (screen.mounted /\ Len(screen.planetaryHours) = 24) =>
     /\ \A n \in 1..24 :
          (screen.planetaryHours[n].period = "day") <=> (n <= 12)
     /\ Len(dayHoursSection(screen.planetaryHours)) = 12
     /\ Len(nightHoursSection(screen.planetaryHours)) = 12

\* C20: with the sunrise at 06:24 and the sunset at 20:05 on a Sunday, hour 1
\* starts at 06:24:00, hour 12 ends at 20:05:00, startIndex is 3, and the
\* hours 1, 2 and 8 belong to the Sun, Venus and the Sun.
C20_Scenario ==
  call.returned =>
     /\ Len(hours) = 24
     /\ hours[1].startTime = 6 * 3600 + 24 * 60
     /\ hours[12].endTime = 20 * 3600 + 5 * 60
     /\ indexOf(chaldeanOrder, At(planetaryDayRulers, ScenarioSunday)) = 3
     /\ hours[1].planet = "sun"
     /\ hours[2].planet = "venus"
     /\ hours[8].planet = "sun"

\* the script ran during hour 2 of that Sunday (07:32:25 to 08:40:50)
C20_Witness ==
  /\ call.returned
  /\ Len(hours) = 24
  /\ hours[2].startTime = 7 * 3600 + 32 * 60 + 25
  /\ hours[2].endTime = 8 * 3600 + 40 * 60 + 50
  /\ currentHours(hours) = {2}

\* the rulers of Sunday .. Saturday the specification lists
listedRulers == <<"sun", "moon", "mars", "mercury", "jupiter", "venus", "saturn">>

\* C21: the day-ruler lookup maps the days of week 0..6 to Sun, Moon, Mars,
\* Mercury, Jupiter, Venus, Saturn, has a value for each of them, and each
\* value occurs in the Chaldean sequence, so that startIndex lies in 0..6;
\* the ruler a call looks up is the one of its date's day of week.
C21_DayRulerTable ==
  /\ \A d \in 0..6 :
       /\ At(DAY_RULERS, d) = listedRulers[d + 1]
       /\ indexOf(PLANETARY_HOUR_SEQUENCE, At(DAY_RULERS, d)) \in 0..6
       /\ At(planetaryDayRulers, d) = listedRulers[d + 1]
       /\ indexOf(chaldeanOrder, At(planetaryDayRulers, d)) \in 0..6
  /\ (call.returned /\ call.fn = "service" /\ Len(hours) = 24) =>
       hours[1].planet = listedRulers[getDay(call.date) + 1]
  /\ (call.returned /\ call.fn = "script") =>
       At(DAY_RULERS, getDay(call.date)) = listedRulers[getDay(call.date) + 1]

\* the service returned the hours of a Sunday that is not day 0
C21_Witness ==
  /\ call.returned /\ call.fn = "service" /\ Len(hours) = 24
  /\ DayOf(call.date) = 7
  /\ hours[1].planet = "sun"

\* C24: the planet sequence continues across the day boundary: for every day
\* of week d, the planet one step past hour 24 in the cycle that starts at
\* DAY_RULERS[d] is DAY_RULERS[(d + 1) mod 7]; so for the day of a call.
C24_ContinuousAcrossDays ==
  /\ \A d \in 0..6 :
       At(PLANETARY_HOUR_SEQUENCE,
          (indexOf(PLANETARY_HOUR_SEQUENCE, At(DAY_RULERS, d)) + 24) % 7)
         = At(DAY_RULERS, (d + 1) % 7)
  /\ call.returned =>
       LET d == getDay(call.date)
       IN At(PLANETARY_HOUR_SEQUENCE,
             (indexOf(PLANETARY_HOUR_SEQUENCE, At(DAY_RULERS, d)) + 24) % 7)
            = At(DAY_RULERS, getDay(call.date + TicksPerDay))

\* a calculator returned the hours of a Saturday: the week wraps
C24_Witness ==
  /\ call.returned /\ Len(hours) = 24
  /\ getDay(call.date) = 6
  /\ getDay(call.date + TicksPerDay) = 0

\* the planet the other calculator assigns to hour h of the day of the call
otherPlanet(h) ==
  IF call.fn = "script"
  THEN servicePlanet(indexOf(chaldeanOrder, At(planetaryDayRulers, getDay(call.date))), h - 1)
  ELSE scriptPlanet(At(DAY_RULERS, getDay(call.date)), h)

\* C25: the two calculators agree on planets exactly on Fridays: every hour
\* of a returned day carries the planet the other calculator assigns to it if
\* and only if the day's ruling planet is Venus; REFERENCE_HOUR_SEQUENCE is
\* the Chaldean sequence rotated to start at Venus.
C25_AgreeOnFridays ==
  /\ \A k \in 0..6 :
       At(REFERENCE_HOUR_SEQUENCE, k)
         = At(PLANETARY_HOUR_SEQUENCE,
              (indexOf(PLANETARY_HOUR_SEQUENCE, "venus") + k) % 7)
  /\ (call.returned /\ Len(hours) = 24) =>
       \A h \in 1..24 :
          (hours[h].planet = otherPlanet(h))
            <=> (At(DAY_RULERS, getDay(call.date)) = "venus")

\* the service returned a Friday's hours, which start with Venus
C25_Witness ==
  /\ call.returned /\ call.fn = "service" /\ Len(hours) = 24
  /\ getDay(call.date) = 5
  /\ hours[1].planet = "venus"
  /\ otherPlanet(24) = hours[24].planet

\* the returned hours are anchor + i * length / 12, truncated to whole ticks,
\* for the day length D and the night length N (in ticks), with the ends of
\* the hours 12 and 24 forced to the sunset and the next sunrise; the hours
\* between the forced seams have equal lengths up to the truncation
anchoredBoundaries(D, N) ==
  /\ Len(hours) = 24
  /\ \A i \in 0..11 :
       /\ hours[i + 1].startTime = (12 * solarSunrise + i * D) \div 12
       /\ hours[i + 1].endTime =
            IF i = 11 THEN solarSunset ELSE (12 * solarSunrise + (i + 1) * D) \div 12
       /\ hours[i + 13].startTime = (12 * solarSunset + i * N) \div 12
       /\ hours[i + 13].endTime =
            IF i = 11 THEN solarNextSunrise ELSE (12 * solarSunset + (i + 1) * N) \div 12
  /\ \A m, n \in (1..11) \cup (13..23) :
       (m <= 12 <=> n <= 12) =>
          Abs((hours[m].endTime - hours[m].startTime)
                - (hours[n].endTime - hours[n].startTime)) <= 1

hoursHolding(t) == { n \in 1..Len(hours) : hourContains(hours[n], t) }

\* C23: when the provider returns sunrise < sunset < nextSunrise, every
\* instant from the sunrise up to (not including) the next sunrise lies in
\* exactly one of the 24 returned hours, and every other instant in none.
C23_Coverage ==
  (call.returned /\ providerOrdered) =>
     /\ Len(hours) = 24
     /\ \A t \in (solarSunrise - TicksPerDay)..(solarNextSunrise + TicksPerDay) :
          Cardinality(hoursHolding(t)) =
            IF solarSunrise <= t /\ t < solarNextSunrise THEN 1 ELSE 0

\* a returned day with ordered instants and hour lengths that are not whole:
\* the tick before the sunset is in hour 12, the sunset itself in hour 13
C23_Witness ==
  /\ call.returned /\ providerOrdered
  /\ Len(hours) = 24
  /\ (solarSunset - solarSunrise) % 12 # 0
  /\ (solarNextSunrise - solarSunset) % 12 # 0
  /\ hoursHolding(solarSunset - 1) = {12}
  /\ hoursHolding(solarSunset) = {13}

\* C26: calculatePlanetaryHours returns a list of length 0 or 24, never a
\* partial one: when a step fails after some hours were built, the caller
\* receives the empty list.
C26_AllOrNothing ==
  call.returned => Len(hours) \in {0, 24}

\* the service's loop built the twelve day hours and threw at the first night
\* hour (valid sunset, no next sunrise); the caller received []
C26_Witness ==
  /\ call.returned /\ call.fn = "service" /\ ~providerThrew
  /\ solarSunrise # NaT /\ solarSunset # NaT /\ solarNextSunrise = NaT
  /\ serviceCompleted(solarSunrise, solarSunset, solarNextSunrise) = 12
  /\ Len(hours) = 0

\* C27: when the day calculation returns an empty list, the invocation of
\* findCurrentPlanetaryHour that ran it returns null at once, without a
\* further invocation for an adjacent date; a failure inside (an exception of
\* the provider, a loop that threw) ends in null, not in an exception.
C27_EmptyListReturnsNull ==
  [][ (fc.pc = "call" /\ Len(hours') = 0) =>
         /\ fc'.pc = "done"
         /\ fc'.result = NoHour
         /\ fc'.date = fc.date
         /\ fc'.calls = fc.calls + 1 ]_vars

\* a search went on to an adjacent day, the provider raised an exception
\* there, and the search ended with null
C27_Witness ==
  /\ fc.pc = "done"
  /\ fc.calls = 2
  /\ providerThrew
  /\ Len(hours) = 0
  /\ fc.result = NoHour

\* C28: on the calendar screen, whenever no fetch is suspended, the list shown
\* is the one computed for the selected date and the current location, and
\* isLoading is false, whatever the order of date changes, location changes
\* and completions before.
C28_LatestFetchShown ==
  (screen.mounted /\ Len(screen.pending) = 0) =>
     /\ call.date = dateAtNoon(screen.selectedDate)
     /\ call.latitude = screenLatitude(screen.location)
     /\ screen.planetaryHours = hours
     /\ ~screen.isLoading

\* two fetches were suspended at once, the second for another day with another
\* list, and both have resumed
C28_Witness ==
  /\ screen.mounted
  /\ Len(screen.pending) = 0
  /\ DayOf(screen.selectedDate) = 5
  /\ solar[4] # Unasked /\ solar[6] # Unasked
  /\ Len(hours) = 24
  /\ screen.planetaryHours = hours
  /\ ~screen.isLoading

\* C29: of the getUserProfile calls made for a user without a profiles row,
\* at most one issues an insert into profiles, and each call that got as far
\* as the table returns that user's profile, not an error.
C29_CreatesAtMostOnce ==
  /\ backend.inserts <= 1
  /\ \A p \in Callers :
       (backend.proc[p].pc = "done" /\ backend.proc[p].user # "none") =>
          backend.proc[p].result = backend.proc[p].user

\* C30: an addRitualLog call of part_000 that found the device offline, or no
\* authenticated user, issued no insert, left ritual_logs as it was and
\* returned a record with a 'local-' or an 'anon-' id; a call issues an insert
\* only after an answer with response.ok and with an authenticated user, and
\* the row it sends carries that user's id.
C30_NoInsertOfflineOrAnonymous ==
  /\ backend.log.issued =>
       /\ backend.log.net = "ok"
       /\ backend.log.user # "none"
       /\ backend.log.sent = backend.log.user
  /\ (backend.log.pc = "done" /\ backend.log.net # "ok") =>
       /\ ~backend.log.issued
       /\ backend.ritual_logs = backend.log.before
       /\ backend.log.id = "local-"
  /\ (backend.log.pc = "done" /\ backend.log.net = "ok" /\ backend.log.user = "none") =>
       /\ ~backend.log.issued
       /\ backend.ritual_logs = backend.log.before
       /\ backend.log.id = "anon-"
  /\ \A n \in 1..Len(backend.ritual_logs) : backend.ritual_logs[n] \in Sessions \ {"none"}

\* after a call that inserted a row, the network check of the next call was
\* rejected: that call returned a 'local-' record and the table kept its row
C30_Witness ==
  /\ backend.log.pc = "done"
  /\ backend.log.calls = 2
  /\ backend.log.net = "throws"
  /\ backend.log.id = "local-"
  /\ backend.log.user_id = "offline-user"
  /\ Len(backend.ritual_logs) = 1

====
